---- MODULE Spec2Model ----
(***************************************************************************)
(* Model of src/bank.go: one shared ledger mutated under three strategies: *)
(* unsynchronized goroutines (withdrawRace), a single worker draining a    *)
(* channel (transactionProcessor), and goroutines guarded by a mutex and   *)
(* joined by a WaitGroup (withdrawMutex, deposit).  main runs the four     *)
(* scenarios one after another.                                            *)
(*                                                                         *)
(* A program counter is the source line about to be executed ("L34r" and   *)
(* "L34w" are the load and the store of line 34).  Time is counted in      *)
(* ticks of 100 ms.  A goroutine at a time.Sleep line holds a timer; it    *)
(* may leave the line once the timer has run out and must leave it at most *)
(* Slack ticks later.  The clock advances only when no goroutine can take  *)
(* a step that is not a wake-up: computation is instantaneous at this      *)
(* scale.                                                                  *)
(***************************************************************************)
EXTENDS Integers, Sequences, FiniteSets, TLC

\* ------------------------------------------------------------ constants

\* How late, in ticks, a sleeping goroutine may wake after its deadline.
Slack == 1

\* The requests, amounts and opening balances of LockSpec.
NReq == 2
MaxAmount == 2
MaxBalance == 2

\* Faulty variant: main waits 300 ms, not 3 s, before it closes the channel.
SendWaitShort == 2 + 1

\* Faulty variant: a channel with room for every submission.
ChanCapBuffered == 2 + 2

\* Faulty variant: the worker takes 800 ms over a transaction, not 300 ms.
ProcDelaySlow == 3 + 5

\* Faulty variant: testRaceCondition waits 400 ms, not 2 s, for its goroutines.
RaceWaitShort == 2 + 2

\* Faulty variant: testComparison waits 400 ms, not 1 s, for its goroutines.
CompareWaitShort == 2 + 2

\* Faulty variant: withdrawRace does not sleep between the check and the update.
RaceDelayNone == 1 - 1

\* time.Sleep durations, in ticks of 100 ms.
RaceDelay == 5
RaceWait == 20
ProcDelay == 3
PurchaseDelay == 1
SalaryDelay == 2
SendWait == 30
CloseWait == 1
MutexDelay == 5
DepositDelay == 3
CompareWait == 10

\* make(chan Transaction): no buffer.
ChanCap == 0

\* for i := 1; i <= 5; i++
Runs == 5

\* var balance int = 1000
InitialBalance == 1000

\* Ledger{CustomerBalance: 1000, BankBalance: 5000}
InitialCustomer == 1000
InitialBank == 5000

\* ------------------------------------------------------------ identities

\* withdrawRace goroutines: run 0 is testRaceCondition, runs 1..Runs are the
\* iterations of testComparison's first loop.
RaceIds == (0..Runs) \X (1..2)

\* withdrawMutex / deposit goroutines: run 0 is testMutex (five requests),
\* runs 1..Runs are the iterations of testComparison's second loop.
LockIds == ({0} \X (1..5)) \cup ((1..Runs) \X (1..2))

\* The four anonymous sender goroutines of testChannelBased.
ProdIds == 1..4

\* WaitGroup instances: 0 is testMutex's wg, i is iteration i's wg.
WgIds == 0..Runs

VARIABLES
    balance,     \* var balance int
    muLocked,    \* var mu sync.Mutex
    wg,          \* the WaitGroup counters
    ledger,      \* testChannelBased's ledger
    chanClosed,  \* txChan has been closed
    buf,         \* txChan's buffer
    rg,          \* withdrawRace goroutines
    lg,          \* withdrawMutex and deposit goroutines
    pg,          \* sender goroutines
    wpc, wtimer, tx,     \* transactionProcessor: position, sleep timer, loop variable
    mpc, mtimer, i,      \* main: position, sleep timer, loop variable
    recvLog,     \* the transactions in the order the worker received them
    doneLog,     \* the transactions in the order the worker finished them, with the outcome
    printed,     \* what main printed last: the line and the balance or balances
    panic        \* the runtime error that ended the program, or ""

vars == <<balance, muLocked, wg, ledger, chanClosed, buf, rg, lg, pg,
          wpc, wtimer, tx, mpc, mtimer, i, recvLog, doneLog, printed, panic>>

shared == <<balance, muLocked, wg, ledger, chanClosed, buf>>
workerVars == <<wpc, wtimer, tx, recvLog, doneLog>>
mainVars == <<mpc, mtimer, i, printed>>

\* ------------------------------------------------------------ time

\* The duration of the time.Sleep at a line; 0 for any other line.
Dur(pc) ==
    CASE pc = "L33" -> RaceDelay
      [] pc = "L51" -> RaceWait
      [] pc = "L73" -> ProcDelay
      [] pc = "L135" -> PurchaseDelay
      [] pc = "L146" -> SalaryDelay
      [] pc = "L156" -> SendWait
      [] pc = "L160" -> CloseWait
      [] pc = "L183" -> MutexDelay
      [] pc = "L203" -> DepositDelay
      [] pc = "L252" -> CompareWait
      [] OTHER -> 0

SleepLines == {"L33", "L51", "L73", "L135", "L146", "L156", "L160", "L183", "L203", "L252"}

\* The program runs until main returns or a goroutine panics.
Running == panic = "" /\ mpc # "end"

NoTx == [Amount |-> 0, Source |-> "", CustomerID |-> "", Type |-> ""]

\* ------------------------------------------------------------ initial state

NoRace == [pc |-> "none", amount |-> 0, timer |-> 0, tmp |-> 0, res |-> ""]
NoLock == [pc |-> "none", kind |-> "", amount |-> 0, wg |-> 0, timer |-> 0, tmp |-> 0, res |-> ""]
NoProd == [pc |-> "none", timer |-> 0, tx |-> NoTx]

Init ==
    /\ balance = InitialBalance
    /\ muLocked = FALSE
    /\ wg = [w \in WgIds |-> 0]
    /\ ledger = [CustomerBalance |-> 0, BankBalance |-> 0]
    /\ chanClosed = FALSE
    /\ buf = <<>>
    /\ rg = [r \in RaceIds |-> NoRace]
    /\ lg = [l \in LockIds |-> NoLock]
    /\ pg = [p \in ProdIds |-> NoProd]
    /\ wpc = "none" /\ wtimer = 0 /\ tx = NoTx
    /\ mpc = "L45" /\ mtimer = 0 /\ i = 0
    /\ recvLog = <<>> /\ doneLog = <<>>
    /\ printed = <<"", 0>>
    /\ panic = ""

\* ------------------------------------------------------------ primitives

\* Faulty variant: time.Sleep returns at once.
ExpiredAtOnce(t) == TRUE

\* time.Sleep returns: the timer has run out.
Expired(t) == t <= 0

\* Faulty variant: Lock returns at once, whether or not the mutex is held.
muLockNoWait == muLocked' = TRUE

\* sync.Mutex.Lock: blocks while the mutex is held.
muLock ==
    /\ ~muLocked
    /\ muLocked' = TRUE

\* Faulty variant: the deferred Unlock does not release the mutex.
muUnlockForgotten == muLocked' = muLocked /\ panic' = panic

\* sync.Mutex.Unlock: fatal on a mutex that is not locked.
muUnlock ==
    IF muLocked
    THEN muLocked' = FALSE /\ panic' = panic
    ELSE muLocked' = muLocked /\ panic' = "sync: unlock of unlocked mutex"

\* sync.WaitGroup.Add(n)
wgAdd(w, n) == wg' = [wg EXCEPT ![w] = @ + n]

\* Faulty variant: Done takes two off the counter.
wgDoneTwice(w) == wg' = [wg EXCEPT ![w] = @ - 2] /\ panic' = panic

\* Faulty variant: Done leaves the counter as it is.
wgDoneForgotten(w) == wg' = wg /\ panic' = panic

\* sync.WaitGroup.Done: panics when the counter goes negative.
wgDone(w) ==
    IF wg[w] >= 1
    THEN wg' = [wg EXCEPT ![w] = @ - 1] /\ panic' = panic
    ELSE wg' = wg /\ panic' = "sync: negative WaitGroup counter"

\* Faulty variant: Wait returns without looking at the counter.
wgWaitReturnsAtOnce(w) == TRUE

\* sync.WaitGroup.Wait: blocks until the counter is zero.
wgWait(w) == wg[w] = 0

\* ------------------------------------------------------------ withdrawRace

\* Faulty variant: the check asks for a positive balance, not for the amount.
SufficientAnyFunds(bal, amount) == bal > 0

\* balance >= amount, as lines 31, 77 and 181 evaluate it.
Sufficient(bal, amount) == bal >= amount

\* balance -= amount (34, 184), from the value loaded.
Debit(bal, amount) == bal - amount

\* Faulty variant: the deposit subtracts, as the withdrawal it was copied from.
CreditAsDebit(bal, amount) == bal - amount

\* balance += amount (204), from the value loaded.
Credit(bal, amount) == bal + amount

withdrawRace(r) ==
    /\ Running
    /\ \/ \* 31-33, 37: the check; on success the goroutine goes to sleep, no lock held
          /\ rg[r].pc = "L31"
          /\ IF Sufficient(balance, rg[r].amount)
             THEN rg' = [rg EXCEPT ![r].pc = "L33", ![r].timer = Dur("L33")]
             ELSE rg' = [rg EXCEPT ![r].pc = "done", ![r].res = "failed"]
          /\ UNCHANGED balance
       \/ \* 34: balance -= amount, the load; nothing orders it against other goroutines
          /\ rg[r].pc = "L34r"
          /\ rg' = [rg EXCEPT ![r].pc = "L34w", ![r].tmp = balance]
          /\ UNCHANGED balance
       \/ \* 34-35: balance -= amount, the store; the success line is printed
          /\ rg[r].pc = "L34w"
          /\ balance' = Debit(rg[r].tmp, rg[r].amount)
          /\ rg' = [rg EXCEPT ![r].pc = "done", ![r].tmp = 0, ![r].res = "ok"]
    /\ UNCHANGED <<muLocked, wg, ledger, chanClosed, buf, pg, lg, workerVars, mainVars, panic>>

\* 33: time.Sleep returns
wakeRace(r) ==
    /\ Running
    /\ rg[r].pc = "L33"
    /\ Expired(rg[r].timer)
    /\ rg' = [rg EXCEPT ![r].pc = "L34r", ![r].timer = 0]
    /\ UNCHANGED <<shared, pg, lg, workerVars, mainVars, panic>>

\* ------------------------------------------------------------ withdrawMutex, deposit

withdrawMutex(l) ==
    /\ Running
    /\ lg[l].kind = "withdraw"
    /\ \/ \* 177: mu.Lock()
          /\ lg[l].pc = "L177"
          /\ muLock
          /\ lg' = [lg EXCEPT ![l].pc = "L181"]
          /\ UNCHANGED <<balance, wg, panic>>
       \/ \* 181-183, 188: the check, under the lock; on success sleep with the lock held
          /\ lg[l].pc = "L181"
          /\ IF Sufficient(balance, lg[l].amount)
             THEN lg' = [lg EXCEPT ![l].pc = "L183", ![l].timer = Dur("L183")]
             ELSE lg' = [lg EXCEPT ![l].pc = "L179d", ![l].res = "failed"]
          /\ UNCHANGED <<balance, muLocked, wg, panic>>
       \/ \* 184: balance -= amount, the load
          /\ lg[l].pc = "L184r"
          /\ lg' = [lg EXCEPT ![l].pc = "L184w", ![l].tmp = balance]
          /\ UNCHANGED <<balance, muLocked, wg, panic>>
       \/ \* 184-186: balance -= amount, the store; the success line is printed
          /\ lg[l].pc = "L184w"
          /\ balance' = Debit(lg[l].tmp, lg[l].amount)
          /\ lg' = [lg EXCEPT ![l].pc = "L179d", ![l].tmp = 0, ![l].res = "ok"]
          /\ UNCHANGED <<muLocked, wg, panic>>
       \/ \* 179: the deferred mu.Unlock(), run first on return
          /\ lg[l].pc = "L179d"
          /\ muUnlock
          /\ lg' = [lg EXCEPT ![l].pc = "L173d"]
          /\ UNCHANGED <<balance, wg>>
       \/ \* 173: the deferred wg.Done(), run last on return
          /\ lg[l].pc = "L173d"
          /\ wgDone(lg[l].wg)
          /\ lg' = [lg EXCEPT ![l].pc = "done"]
          /\ UNCHANGED <<balance, muLocked>>
    /\ UNCHANGED <<ledger, chanClosed, buf, rg, pg, workerVars, mainVars>>

deposit(l) ==
    /\ Running
    /\ lg[l].kind = "deposit"
    /\ \/ \* 199-203: mu.Lock(), then sleep with the lock held
          /\ lg[l].pc = "L199"
          /\ muLock
          /\ lg' = [lg EXCEPT ![l].pc = "L203", ![l].timer = Dur("L203")]
          /\ UNCHANGED <<balance, wg, panic>>
       \/ \* 204: balance += amount, the load
          /\ lg[l].pc = "L204r"
          /\ lg' = [lg EXCEPT ![l].pc = "L204w", ![l].tmp = balance]
          /\ UNCHANGED <<balance, muLocked, wg, panic>>
       \/ \* 204-206: balance += amount, the store; the success line is printed
          /\ lg[l].pc = "L204w"
          /\ balance' = Credit(lg[l].tmp, lg[l].amount)
          /\ lg' = [lg EXCEPT ![l].pc = "L201d", ![l].tmp = 0, ![l].res = "ok"]
          /\ UNCHANGED <<muLocked, wg, panic>>
       \/ \* 201: the deferred mu.Unlock()
          /\ lg[l].pc = "L201d"
          /\ muUnlock
          /\ lg' = [lg EXCEPT ![l].pc = "L195d"]
          /\ UNCHANGED <<balance, wg>>
       \/ \* 195: the deferred wg.Done()
          /\ lg[l].pc = "L195d"
          /\ wgDone(lg[l].wg)
          /\ lg' = [lg EXCEPT ![l].pc = "done"]
          /\ UNCHANGED <<balance, muLocked>>
    /\ UNCHANGED <<ledger, chanClosed, buf, rg, pg, workerVars, mainVars>>

\* 183, 203: time.Sleep returns; the goroutine still holds the lock
wakeLock(l) ==
    /\ Running
    /\ lg[l].pc \in {"L183", "L203"}
    /\ Expired(lg[l].timer)
    /\ lg' = [lg EXCEPT ![l].pc = IF lg[l].pc = "L183" THEN "L184r" ELSE "L204r",
                        ![l].timer = 0]
    /\ UNCHANGED <<shared, rg, pg, workerVars, mainVars, panic>>

\* ------------------------------------------------------------ the channel

\* 116-121, 125-130, 136-141, 147-152: the Transaction each sender submits.
TxOf(p) ==
    CASE p = 1 -> [Amount |-> 700, Source |-> "Phone Transfer",
                   CustomerID |-> "CUST1001", Type |-> "withdrawal"]
      [] p = 2 -> [Amount |-> 500, Source |-> "ATM Withdrawal",
                   CustomerID |-> "CUST1001", Type |-> "withdrawal"]
      [] p = 3 -> [Amount |-> 400, Source |-> "Online Purchase",
                   CustomerID |-> "CUST1001", Type |-> "withdrawal"]
      [] p = 4 -> [Amount |-> 1500, Source |-> "Salary Deposit",
                   CustomerID |-> "CUST1001", Type |-> "deposit"]

SendLines == {"L116", "L125", "L136", "L147"}

\* Faulty variant: a send is taken even while the worker is in the middle of a
\* transaction.
ReceiverAlways == wpc \in {"L63", "L73", "L76", "L78", "L79", "L86", "L87"} /\ buf = <<>>

\* A receiver is parked on the channel: the worker is at its range statement
\* and the buffer holds nothing for it.
ReceiverWaiting == wpc = "L63" /\ buf = <<>>

\* txChan <- t by sender p.  A send on a closed channel panics.  With a
\* receiver parked the value is handed over and the worker starts its
\* iteration (66-73: it prints the request and goes to sleep); otherwise the
\* value goes into the buffer if there is room, and the sender blocks if not.
chanSend(p) ==
    IF chanClosed
    THEN /\ panic' = "send on closed channel"
         /\ UNCHANGED <<pg, buf, workerVars>>
    ELSE /\ panic' = panic
         /\ pg' = [pg EXCEPT ![p].pc = "done"]
         /\ IF ReceiverWaiting
            THEN /\ tx' = pg[p].tx
                 /\ recvLog' = Append(recvLog, pg[p].tx)
                 /\ wpc' = "L73"
                 /\ wtimer' = Dur("L73")
                 /\ UNCHANGED <<buf, doneLog>>
            ELSE /\ Len(buf) < ChanCap
                 /\ buf' = Append(buf, pg[p].tx)
                 /\ UNCHANGED workerVars

\* The anonymous sender goroutines of lines 115-153.
producer(p) ==
    /\ Running
    /\ pg[p].pc \in SendLines
    /\ chanSend(p)
    /\ UNCHANGED <<balance, muLocked, wg, ledger, chanClosed, rg, lg, mainVars>>

\* 135, 146: time.Sleep returns
wakeProducer(p) ==
    /\ Running
    /\ pg[p].pc \in {"L135", "L146"}
    /\ Expired(pg[p].timer)
    /\ pg' = [pg EXCEPT ![p].pc = IF pg[p].pc = "L135" THEN "L136" ELSE "L147",
                        ![p].timer = 0]
    /\ UNCHANGED <<shared, rg, lg, workerVars, mainVars, panic>>

\* ------------------------------------------------------------ transactionProcessor

Logged(t, outcome) == Append(doneLog, [tx |-> t, outcome |-> outcome])

\* Faulty variant: the withdrawal credits the bank and leaves the customer as it was.
DebitCustomerSkipped(ld, amount) == ld

\* 78: ledger.CustomerBalance -= tx.Amount
DebitCustomer(ld, amount) == [ld EXCEPT !.CustomerBalance = @ - amount]

\* 79: ledger.BankBalance += tx.Amount
CreditBank(ld, amount) == [ld EXCEPT !.BankBalance = @ + amount]

\* 86: ledger.CustomerBalance += tx.Amount
CreditCustomer(ld, amount) == [ld EXCEPT !.CustomerBalance = @ + amount]

\* Faulty variant: the deposit credits the bank as well.
DebitBankAsCredit(ld, amount) == [ld EXCEPT !.BankBalance = @ + amount]

\* 87: ledger.BankBalance -= tx.Amount
DebitBank(ld, amount) == [ld EXCEPT !.BankBalance = @ - amount]

transactionProcessor ==
    /\ Running
    /\ \/ \* 63: for tx := range txChan.  A buffered value is taken (66-73: the
          \* request is printed, the worker goes to sleep); with the buffer
          \* empty the loop ends once the channel is closed, and blocks until then
          /\ wpc = "L63"
          /\ ~(buf = <<>> /\ ~chanClosed)
          /\ IF buf # <<>>
             THEN /\ tx' = Head(buf)
                  /\ buf' = Tail(buf)
                  /\ recvLog' = Append(recvLog, Head(buf))
                  /\ wpc' = "L73"
                  /\ wtimer' = Dur("L73")
             ELSE /\ wpc' = "exited"
                  /\ UNCHANGED <<buf, tx, wtimer, recvLog>>
          /\ UNCHANGED <<ledger, doneLog>>
       \/ \* 76-77, 83, 85: the type and the funds check
          /\ wpc = "L76"
          /\ IF tx.Type = "withdrawal"
             THEN IF Sufficient(ledger.CustomerBalance, tx.Amount)
                  THEN wpc' = "L78" /\ UNCHANGED doneLog
                  ELSE wpc' = "L63" /\ doneLog' = Logged(tx, "rejected")
             ELSE IF tx.Type = "deposit"
                  THEN wpc' = "L86" /\ UNCHANGED doneLog
                  ELSE wpc' = "L63" /\ doneLog' = Logged(tx, "ignored")
          /\ UNCHANGED <<ledger, buf, tx, wtimer, recvLog>>
       \/ \* 78: debit customer
          /\ wpc = "L78"
          /\ ledger' = DebitCustomer(ledger, tx.Amount)
          /\ wpc' = "L79"
          /\ UNCHANGED <<buf, tx, wtimer, recvLog, doneLog>>
       \/ \* 79-81: credit bank, print
          /\ wpc = "L79"
          /\ ledger' = CreditBank(ledger, tx.Amount)
          /\ wpc' = "L63"
          /\ doneLog' = Logged(tx, "committed")
          /\ UNCHANGED <<buf, tx, wtimer, recvLog>>
       \/ \* 86: credit customer
          /\ wpc = "L86"
          /\ ledger' = CreditCustomer(ledger, tx.Amount)
          /\ wpc' = "L87"
          /\ UNCHANGED <<buf, tx, wtimer, recvLog, doneLog>>
       \/ \* 87-89: debit bank, print
          /\ wpc = "L87"
          /\ ledger' = DebitBank(ledger, tx.Amount)
          /\ wpc' = "L63"
          /\ doneLog' = Logged(tx, "committed")
          /\ UNCHANGED <<buf, tx, wtimer, recvLog>>
    /\ UNCHANGED <<balance, muLocked, wg, chanClosed, rg, lg, pg, mainVars, panic>>

\* Faulty variant: after the delay the worker goes back to the channel and the
\* transaction is dropped.
wakeProcessorDrops ==
    /\ Running
    /\ wpc = "L73"
    /\ Expired(wtimer)
    /\ wpc' = "L63"
    /\ wtimer' = 0
    /\ UNCHANGED <<shared, rg, lg, pg, tx, recvLog, doneLog, mainVars, panic>>

\* 76-90 as a function: the ledger after transaction t has been processed.
Apply(ld, t) ==
    IF t.Type = "withdrawal"
    THEN IF Sufficient(ld.CustomerBalance, t.Amount)
         THEN CreditBank(DebitCustomer(ld, t.Amount), t.Amount)
         ELSE ld
    ELSE IF t.Type = "deposit"
         THEN DebitBank(CreditCustomer(ld, t.Amount), t.Amount)
         ELSE ld

\* The ledger after the transactions of `log` have been processed in order.
RECURSIVE ApplyAll(_, _)
ApplyAll(ld, log) ==
    IF log = <<>> THEN ld ELSE ApplyAll(Apply(ld, Head(log)), Tail(log))

\* 73: time.Sleep returns
wakeProcessor ==
    /\ Running
    /\ wpc = "L73"
    /\ Expired(wtimer)
    /\ wpc' = "L76"
    /\ wtimer' = 0
    /\ UNCHANGED <<shared, rg, lg, pg, tx, recvLog, doneLog, mainVars, panic>>

\* ------------------------------------------------------------ main

\* go withdrawRace(amount, source)
goRace(r, amount) ==
    rg' = [rg EXCEPT ![r] = [NoRace EXCEPT !.pc = "L31", !.amount = amount]]

\* go withdrawMutex(amount, source, &wg)
goWithdraw(l, amount, w) ==
    lg' = [lg EXCEPT ![l] = [NoLock EXCEPT !.pc = "L177", !.kind = "withdraw",
                                           !.amount = amount, !.wg = w]]

\* go deposit(amount, source, &wg)
goDeposit(l, amount, w) ==
    lg' = [lg EXCEPT ![l] = [NoLock EXCEPT !.pc = "L199", !.kind = "deposit",
                                           !.amount = amount, !.wg = w]]

\* go func() { ... txChan <- Transaction{...} }(): sender p starts at `line`
goProducer(p, line) ==
    pg' = [pg EXCEPT ![p] = [pc |-> line, timer |-> Dur(line), tx |-> TxOf(p)]]

\* main moves to `line`; a time.Sleep line starts its timer
goto(line) == mpc' = line /\ mtimer' = Dur(line)

testRaceCondition ==
    /\ Running
    /\ \/ \* 45-46
          /\ mpc = "L45"
          /\ balance' = 1000
          /\ printed' = <<"L46", balance'>>
          /\ goto("L48")
          /\ UNCHANGED rg
       \/ \* 48
          /\ mpc = "L48"
          /\ goRace(<<0, 1>>, 700)
          /\ goto("L49")
          /\ UNCHANGED <<balance, printed>>
       \/ \* 49-51
          /\ mpc = "L49"
          /\ goRace(<<0, 2>>, 500)
          /\ goto("L51")
          /\ UNCHANGED <<balance, printed>>
       \/ \* 53
          /\ mpc = "L53"
          /\ printed' = <<"L53", balance>>
          /\ goto("L56")
          /\ UNCHANGED <<balance, rg>>
       \/ \* 56
          /\ mpc = "L56"
          /\ printed' = <<"L56", balance>>
          /\ goto("L100")
          /\ UNCHANGED <<balance, rg>>
    /\ UNCHANGED <<muLocked, wg, ledger, chanClosed, buf, lg, pg, workerVars, i, panic>>

testChannelBased ==
    /\ Running
    /\ \/ \* 100-106
          /\ mpc = "L100"
          /\ ledger' = [CustomerBalance |-> InitialCustomer, BankBalance |-> InitialBank]
          /\ printed' = <<"L105", ledger'.CustomerBalance, ledger'.BankBalance>>
          /\ goto("L109")
          /\ UNCHANGED <<chanClosed, buf, wpc, pg, panic>>
       \/ \* 109
          /\ mpc = "L109"
          /\ chanClosed' = FALSE
          /\ buf' = <<>>
          /\ goto("L112")
          /\ UNCHANGED <<ledger, wpc, pg, printed, panic>>
       \/ \* 112
          /\ mpc = "L112"
          /\ wpc' = "L63"
          /\ goto("L115")
          /\ UNCHANGED <<ledger, chanClosed, buf, pg, printed, panic>>
       \/ \* 115-122
          /\ mpc = "L115"
          /\ goProducer(1, "L116")
          /\ goto("L124")
          /\ UNCHANGED <<ledger, chanClosed, buf, wpc, printed, panic>>
       \/ \* 124-131
          /\ mpc = "L124"
          /\ goProducer(2, "L125")
          /\ goto("L134")
          /\ UNCHANGED <<ledger, chanClosed, buf, wpc, printed, panic>>
       \/ \* 134-142
          /\ mpc = "L134"
          /\ goProducer(3, "L135")
          /\ goto("L145")
          /\ UNCHANGED <<ledger, chanClosed, buf, wpc, printed, panic>>
       \/ \* 145-156
          /\ mpc = "L145"
          /\ goProducer(4, "L146")
          /\ goto("L156")
          /\ UNCHANGED <<ledger, chanClosed, buf, wpc, printed, panic>>
       \/ \* 159-160: close(txChan); closing a closed channel panics
          /\ mpc = "L159"
          /\ IF chanClosed
             THEN panic' = "close of closed channel" /\ UNCHANGED <<chanClosed, mpc, mtimer>>
             ELSE chanClosed' = TRUE /\ goto("L160") /\ UNCHANGED panic
          /\ UNCHANGED <<ledger, buf, wpc, pg, printed>>
       \/ \* 163
          /\ mpc = "L163"
          /\ printed' = <<"L163", ledger.CustomerBalance>>
          /\ goto("L164")
          /\ UNCHANGED <<ledger, chanClosed, buf, wpc, pg, panic>>
       \/ \* 164
          /\ mpc = "L164"
          /\ printed' = <<"L164", ledger.BankBalance>>
          /\ goto("L165")
          /\ UNCHANGED <<ledger, chanClosed, buf, wpc, pg, panic>>
       \/ \* 165-166
          /\ mpc = "L165"
          /\ printed' = <<"L165", ledger.CustomerBalance + ledger.BankBalance>>
          /\ goto("L213")
          /\ UNCHANGED <<ledger, chanClosed, buf, wpc, pg, panic>>
    /\ UNCHANGED <<balance, muLocked, wg, rg, lg, wtimer, tx, recvLog, doneLog, i>>

testMutex ==
    /\ Running
    /\ \/ \* 213-216: wg is a fresh WaitGroup
          /\ mpc = "L213"
          /\ balance' = 1000
          /\ printed' = <<"L214", balance'>>
          /\ wg' = [wg EXCEPT ![0] = 0]
          /\ goto("L219")
          /\ UNCHANGED lg
       \/ \* 219
          /\ mpc = "L219"
          /\ wgAdd(0, 2)
          /\ goto("L220")
          /\ UNCHANGED <<balance, lg, printed>>
       \/ \* 220
          /\ mpc = "L220"
          /\ goWithdraw(<<0, 1>>, 700, 0)
          /\ goto("L221")
          /\ UNCHANGED <<balance, wg, printed>>
       \/ \* 221
          /\ mpc = "L221"
          /\ goWithdraw(<<0, 2>>, 500, 0)
          /\ goto("L222")
          /\ UNCHANGED <<balance, wg, printed>>
       \/ \* 222
          /\ mpc = "L222"
          /\ wgWait(0)
          /\ goto("L224")
          /\ UNCHANGED <<balance, wg, lg, printed>>
       \/ \* 224-228
          /\ mpc = "L224"
          /\ printed' = <<"L224", balance>>
          /\ goto("L229")
          /\ UNCHANGED <<balance, wg, lg>>
       \/ \* 229
          /\ mpc = "L229"
          /\ wgAdd(0, 3)
          /\ goto("L230")
          /\ UNCHANGED <<balance, lg, printed>>
       \/ \* 230
          /\ mpc = "L230"
          /\ goWithdraw(<<0, 3>>, 400, 0)
          /\ goto("L231")
          /\ UNCHANGED <<balance, wg, printed>>
       \/ \* 231
          /\ mpc = "L231"
          /\ goDeposit(<<0, 4>>, 1000, 0)
          /\ goto("L232")
          /\ UNCHANGED <<balance, wg, printed>>
       \/ \* 232
          /\ mpc = "L232"
          /\ goDeposit(<<0, 5>>, 200, 0)
          /\ goto("L233")
          /\ UNCHANGED <<balance, wg, printed>>
       \/ \* 233
          /\ mpc = "L233"
          /\ wgWait(0)
          /\ goto("L235")
          /\ UNCHANGED <<balance, wg, lg, printed>>
       \/ \* 235
          /\ mpc = "L235"
          /\ printed' = <<"L235", balance>>
          /\ goto("L248")
          /\ UNCHANGED <<balance, wg, lg>>
    /\ UNCHANGED <<muLocked, ledger, chanClosed, buf, rg, pg, workerVars, i, panic>>

testComparison ==
    /\ Running
    /\ \/ \* 248: i := 1
          /\ mpc = "L248"
          /\ i' = 1
          /\ goto("L248c")
          /\ UNCHANGED <<balance, wg, rg, lg, printed>>
       \/ \* 248: i <= 5
          /\ mpc = "L248c"
          /\ IF i <= Runs THEN goto("L249") ELSE goto("L258")
          /\ UNCHANGED <<balance, wg, rg, lg, printed, i>>
       \/ \* 249
          /\ mpc = "L249"
          /\ balance' = 1000
          /\ goto("L250")
          /\ UNCHANGED <<wg, rg, lg, printed, i>>
       \/ \* 250
          /\ mpc = "L250"
          /\ goRace(<<i, 1>>, 700)
          /\ goto("L251")
          /\ UNCHANGED <<balance, wg, lg, printed, i>>
       \/ \* 251-252
          /\ mpc = "L251"
          /\ goRace(<<i, 2>>, 500)
          /\ goto("L252")
          /\ UNCHANGED <<balance, wg, lg, printed, i>>
       \/ \* 253, then 248: i++
          /\ mpc = "L253"
          /\ printed' = <<"L253", balance>>
          /\ i' = i + 1
          /\ goto("L248c")
          /\ UNCHANGED <<balance, wg, rg, lg>>
       \/ \* 258: i := 1
          /\ mpc = "L258"
          /\ i' = 1
          /\ goto("L258c")
          /\ UNCHANGED <<balance, wg, rg, lg, printed>>
       \/ \* 258: i <= 5; after the loop only the observations are printed (268-301)
          /\ mpc = "L258c"
          /\ IF i <= Runs THEN goto("L259") ELSE goto("end")
          /\ UNCHANGED <<balance, wg, rg, lg, printed, i>>
       \/ \* 259-260: wg is a fresh WaitGroup
          /\ mpc = "L259"
          /\ balance' = 1000
          /\ wg' = [wg EXCEPT ![i] = 0]
          /\ goto("L261")
          /\ UNCHANGED <<rg, lg, printed, i>>
       \/ \* 261
          /\ mpc = "L261"
          /\ wgAdd(i, 2)
          /\ goto("L262")
          /\ UNCHANGED <<balance, rg, lg, printed, i>>
       \/ \* 262
          /\ mpc = "L262"
          /\ goWithdraw(<<i, 1>>, 700, i)
          /\ goto("L263")
          /\ UNCHANGED <<balance, wg, rg, printed, i>>
       \/ \* 263
          /\ mpc = "L263"
          /\ goWithdraw(<<i, 2>>, 500, i)
          /\ goto("L264")
          /\ UNCHANGED <<balance, wg, rg, printed, i>>
       \/ \* 264
          /\ mpc = "L264"
          /\ wgWait(i)
          /\ goto("L265")
          /\ UNCHANGED <<balance, wg, rg, lg, printed, i>>
       \/ \* 265, then 258: i++
          /\ mpc = "L265"
          /\ printed' = <<"L265", balance>>
          /\ i' = i + 1
          /\ goto("L258c")
          /\ UNCHANGED <<balance, wg, rg, lg>>
    /\ UNCHANGED <<muLocked, ledger, chanClosed, buf, pg, workerVars, panic>>

\* The line main goes on to when its time.Sleep returns.
AfterSleep(line) ==
    CASE line = "L51" -> "L53"
      [] line = "L156" -> "L159"
      [] line = "L160" -> "L163"
      [] line = "L252" -> "L253"

\* 51, 156, 160, 252: time.Sleep returns
wakeMain ==
    /\ Running
    /\ mpc \in {"L51", "L156", "L160", "L252"}
    /\ Expired(mtimer)
    /\ goto(AfterSleep(mpc))
    /\ UNCHANGED <<shared, rg, lg, pg, workerVars, i, printed, panic>>

\* ------------------------------------------------------------ the clock

\* A step of some goroutine that is not the return of a time.Sleep.
Step ==
    \/ testRaceCondition
    \/ testChannelBased
    \/ testMutex
    \/ testComparison
    \/ transactionProcessor
    \/ \E r \in RaceIds : withdrawRace(r)
    \/ \E l \in LockIds : withdrawMutex(l)
    \/ \E l \in LockIds : deposit(l)
    \/ \E p \in ProdIds : producer(p)

\* The timers of the goroutines that are asleep.
Timers ==
    {rg[r].timer : r \in {x \in RaceIds : rg[x].pc \in SleepLines}}
        \cup {lg[l].timer : l \in {x \in LockIds : lg[x].pc \in SleepLines}}
        \cup {pg[p].timer : p \in {x \in ProdIds : pg[x].pc \in SleepLines}}
        \cup (IF wpc \in SleepLines THEN {wtimer} ELSE {})
        \cup (IF mpc \in SleepLines THEN {mtimer} ELSE {})

\* 100 ms pass: somebody is asleep, nobody has overslept by Slack yet, and no
\* goroutine has a step to take.
Tick ==
    /\ Running
    /\ Timers # {}
    /\ \A t \in Timers : t > -Slack
    /\ ~ENABLED Step
    /\ rg' = [r \in RaceIds |->
                IF rg[r].pc \in SleepLines THEN [rg[r] EXCEPT !.timer = @ - 1] ELSE rg[r]]
    /\ lg' = [l \in LockIds |->
                IF lg[l].pc \in SleepLines THEN [lg[l] EXCEPT !.timer = @ - 1] ELSE lg[l]]
    /\ pg' = [p \in ProdIds |->
                IF pg[p].pc \in SleepLines THEN [pg[p] EXCEPT !.timer = @ - 1] ELSE pg[p]]
    /\ wtimer' = IF wpc \in SleepLines THEN wtimer - 1 ELSE wtimer
    /\ mtimer' = IF mpc \in SleepLines THEN mtimer - 1 ELSE mtimer
    /\ UNCHANGED <<shared, wpc, tx, recvLog, doneLog, mpc, i, printed, panic>>

Wake ==
    \/ wakeMain
    \/ wakeProcessor
    \/ \E r \in RaceIds : wakeRace(r)
    \/ \E l \in LockIds : wakeLock(l)
    \/ \E p \in ProdIds : wakeProducer(p)

Next == Step \/ Wake \/ Tick

Spec == Init /\ [][Next]_vars

\* The program under fair scheduling: a goroutine that can run does run, and
\* time passes.
FairSpec == Spec /\ WF_vars(Next)

\* ------------------------------------------------------------ any requests

\* withdrawMutex and deposit with any requests: NReq goroutines, each a
\* withdrawal or a deposit of 1..MaxAmount, issued together against a balance
\* of 0..MaxBalance that line 214 has printed, with main at the wg.Wait of
\* line 233 and the counter at NReq.
LockInit ==
    /\ balance \in 0..MaxBalance
    /\ printed = <<"L214", balance>>
    /\ muLocked = FALSE
    /\ wg = [w \in WgIds |-> IF w = 0 THEN NReq ELSE 0]
    /\ \E req \in [1..NReq -> {"withdraw", "deposit"} \X (1..MaxAmount)] :
          lg = [l \in LockIds |->
                  IF l[1] = 0 /\ l[2] <= NReq
                  THEN [NoLock EXCEPT !.pc = IF req[l[2]][1] = "withdraw" THEN "L177" ELSE "L199",
                                      !.kind = req[l[2]][1],
                                      !.amount = req[l[2]][2]]
                  ELSE NoLock]
    /\ ledger = [CustomerBalance |-> 0, BankBalance |-> 0]
    /\ chanClosed = FALSE
    /\ buf = <<>>
    /\ rg = [r \in RaceIds |-> NoRace]
    /\ pg = [p \in ProdIds |-> NoProd]
    /\ wpc = "none" /\ wtimer = 0 /\ tx = NoTx
    /\ mpc = "L233" /\ mtimer = 0 /\ i = 0
    /\ recvLog = <<>> /\ doneLog = <<>>
    /\ panic = ""

LockNext ==
    \/ testMutex
    \/ \E l \in LockIds : withdrawMutex(l)
    \/ \E l \in LockIds : deposit(l)
    \/ \E l \in LockIds : wakeLock(l)
    \/ Tick

LockSpec == LockInit /\ [][LockNext]_vars

\* ------------------------------------------------------------ vocabulary of the claims

\* The requests that have been issued.
Requests == {l \in LockIds : lg[l].pc # "none"}

\* The request is between its mu.Lock() and its mu.Unlock().
InCritical(l) ==
    lg[l].pc \in {"L181", "L183", "L184r", "L184w", "L179d", "L203", "L204r", "L204w", "L201d"}

\* The body of the request has run: it committed or was rejected, and only
\* its deferred calls may be left.
Settled(l) == lg[l].res # ""

Committed(S) == {l \in S : lg[l].res = "ok"}

\* The signed amount a request changed the balance by.
Effect(l) ==
    IF lg[l].res # "ok" THEN 0
    ELSE IF lg[l].kind = "deposit" THEN lg[l].amount ELSE 0 - lg[l].amount

RECURSIVE Net(_)
Net(S) == IF S = {} THEN 0 ELSE LET l == CHOOSE x \in S : TRUE IN Effect(l) + Net(S \ {l})

\* The two requests of a contended pair: run 0 is testMutex's first join, run
\* k is iteration k of testComparison's second loop.
Pair(run) == {<<run, 1>>, <<run, 2>>}

\* main is inside a Lock-Guarded scenario, past the line that sets the balance.
InLockScenario ==
    mpc \in {"L219", "L220", "L221", "L222", "L224", "L229", "L230", "L231", "L232",
             "L233", "L235", "L261", "L262", "L263", "L264", "L265"}

\* ------------------------------------------------------------ claims

\* C1: from balance 1000, with withdrawMutex(700) and withdrawMutex(500) issued
\* together, once both bodies have run exactly one of the two has committed and
\* the balance is 300 or 500; that is the balance main prints after wg.Wait, in
\* testMutex (224) and in every iteration of testComparison (265).
C1_AtMostOneWinner ==
    /\ (mpc \in {"L222", "L224"} /\ \A l \in Pair(0) : Settled(l))
          => /\ Cardinality(Committed(Pair(0))) = 1
             /\ balance \in {300, 500}
    /\ (mpc \in {"L264", "L265"} /\ \A l \in Pair(i) : Settled(l))
          => /\ Cardinality(Committed(Pair(i))) = 1
             /\ balance \in {300, 500}
    /\ mpc = "L224" => \A l \in Pair(0) : lg[l].pc = "done"
    /\ mpc = "L265" => \A l \in Pair(i) : lg[l].pc = "done"
    /\ printed[1] \in {"L224", "L265"} => printed[2] \in {300, 500}

\* The 500 won the lock in the last iteration: the 700 was rejected and main
\* is about to print 500.
C1_Witness ==
    /\ mpc = "L265" /\ i = Runs
    /\ balance = 500
    /\ lg[<<i, 1>>].res = "failed" /\ lg[<<i, 2>>].res = "ok"

\* C2: at most one request, withdrawal or deposit, is between its mu.Lock() and
\* its mu.Unlock() at any time, the simulated delay included, and the mutex is
\* held exactly then.
C2_MutualExclusion ==
    /\ Cardinality({l \in LockIds : InCritical(l)}) <= 1
    /\ muLocked <=> \E l \in LockIds : InCritical(l)

\* A deposit sleeps inside the critical section while a withdrawal and the
\* other deposit wait at mu.Lock().
C2_Witness ==
    /\ lg[<<0, 4>>].pc = "L203"
    /\ lg[<<0, 3>>].pc = "L177"
    /\ lg[<<0, 5>>].pc = "L199"

\* C3: for any requests issued together, once every body has run the balance
\* is the opening balance (printed at 214) plus the committed deposits minus
\* the committed withdrawals, and main prints that balance after wg.Wait.
C3_Accounting ==
    /\ (mpc \in {"L233", "L235"} /\ \A l \in Requests : Settled(l))
          => balance = printed[2] + Net(Requests)
    /\ mpc = "L235" => \A l \in Requests : lg[l].pc = "done"

\* A withdrawal was rejected, a deposit committed, and main is past the join.
C3_Witness ==
    /\ mpc = "L235"
    /\ \E l \in Requests : lg[l].kind = "withdraw" /\ lg[l].res = "failed"
    /\ \E l \in Requests : lg[l].kind = "deposit" /\ lg[l].res = "ok"

\* C4: while a Lock-Guarded scenario runs the balance is never negative, and
\* the ledger's CustomerBalance is never negative.
C4_NonNegative ==
    /\ InLockScenario => balance >= 0
    /\ ledger.CustomerBalance >= 0

\* Both executors have turned a withdrawal down that would have overdrawn.
C4_Witness ==
    /\ \E k \in 1..Len(doneLog) : doneLog[k].outcome = "rejected"
    /\ InLockScenario
    /\ \E l \in Requests : lg[l].res = "failed" /\ balance < lg[l].amount

\* C5: whenever the worker is not between the two updates of a commit, in
\* particular after every transaction it has finished, CustomerBalance +
\* BankBalance is the initial total of 6000.
C5_Conservation ==
    wpc \notin {"none", "L79", "L87"}
        => ledger.CustomerBalance + ledger.BankBalance = InitialCustomer + InitialBank

\* The worker has finished all four, one withdrawal rejected, the deposit committed.
C5_Witness ==
    /\ wpc = "exited"
    /\ Len(doneLog) = 4
    /\ \E k \in 1..4 : doneLog[k].outcome = "rejected"
    /\ \E k \in 1..4 : doneLog[k].tx.Type = "deposit" /\ doneLog[k].outcome = "committed"

\* The submissions in the order the source lists them (115-153).
SubmissionOrder == <<TxOf(1), TxOf(2), TxOf(3), TxOf(4)>>

Outcomes == [k \in 1..Len(doneLog) |-> doneLog[k].outcome]

\* The senders whose submission has completed.
Submitted == {p \in ProdIds : pg[p].pc = "done"}

\* The senders blocked in their send.
Sending == {p \in ProdIds : pg[p].pc \in SendLines}

\* The worker is in the middle of a transaction.
WorkerBusy == wpc \in {"L73", "L76", "L78", "L79", "L86", "L87"}

\* How often transaction t occurs in a log of transactions.
Count(log, t) == Cardinality({k \in 1..Len(log) : log[k] = t})

DoneTxs == [k \in 1..Len(doneLog) |-> doneLog[k].tx]

C7_SerialOwner ==
    /\ ~WorkerBusy => doneLog # <<>> \/ recvLog = <<>>
    /\ ~WorkerBusy => DoneTxs = recvLog
    /\ WorkerBusy => /\ Len(recvLog) = Len(doneLog) + 1
                     /\ tx = recvLog[Len(recvLog)]
                     /\ DoneTxs = SubSeq(recvLog, 1, Len(doneLog))
    /\ wpc \in {"L63", "exited"}
          => ledger = ApplyAll([CustomerBalance |-> InitialCustomer,
                                BankBalance |-> InitialBank], recvLog)

\* The worker is between the two updates of a commit, after an earlier
\* transaction, and two senders are waiting.
C7_Witness ==
    /\ wpc = "L79"
    /\ Len(doneLog) >= 1
    /\ Cardinality(Sending) >= 2

C9_CloseAfterSends ==
    /\ (mpc = "L159" \/ chanClosed) => Submitted = ProdIds
    /\ panic # "send on closed channel"

\* main is about to close the channel, every send has completed and the worker
\* has nothing left to do.
C9_Witness ==
    /\ mpc = "L159"
    /\ ~chanClosed
    /\ Submitted = ProdIds
    /\ wpc = "L63"

C10_Safety ==
    /\ \A p \in Submitted : Count(recvLog, pg[p].tx) = 1 /\ Count(DoneTxs, pg[p].tx) <= 1
    /\ wpc = "exited"
          => /\ chanClosed
             /\ buf = <<>>
             /\ \A p \in Submitted : Count(DoneTxs, pg[p].tx) = 1
             /\ Len(doneLog) = Cardinality(Submitted)

\* C10: every transaction whose submission completed is received once and
\* processed once, never twice; once the channel is closed the worker leaves
\* its loop, and it has then processed every submitted transaction.
C10_DrainExactlyOnce ==
    /\ []C10_Safety
    /\ \A p \in ProdIds : (pg[p].pc = "done") ~> (Count(DoneTxs, TxOf(p)) = 1)
    /\ chanClosed ~> (wpc = "exited")

\* The worker has left its loop with all four transactions processed.
C10_Witness ==
    /\ wpc = "exited"
    /\ Len(doneLog) = 4
    /\ Submitted = ProdIds

\* The lines at which main reads the ledger of testChannelBased (163-166).
LedgerReadLines == {"L163", "L164", "L165"}

\* The lines at which main reads the balance after a scenario's requests:
\* 53, 56 and 253 without a join, 224, 235 and 265 after wg.Wait.
BalanceReadLines == {"L53", "L56", "L253", "L224", "L235", "L265"}

\* The withdrawRace goroutines that have been started and have not returned.
LiveRace == {r \in RaceIds : rg[r].pc \notin {"none", "done"}}

\* The withdrawMutex and deposit goroutines that have been started and have
\* not returned.
LiveLock == {l \in LockIds : lg[l].pc \notin {"none", "done"}}

\* C11: main reads the final CustomerBalance and BankBalance (163-166) only
\* after the channel has been closed, every sender has completed its send and
\* the worker has finished every submitted transaction and left its loop; no
\* such read happens while a transaction is pending or in progress.
C11_SnapshotAfterDrain ==
    mpc \in LedgerReadLines
        => /\ chanClosed
           /\ Submitted = ProdIds
           /\ buf = <<>>
           /\ wpc = "exited"
           /\ Len(doneLog) = Len(recvLog)
           /\ Len(doneLog) = Cardinality(ProdIds)

\* main is about to print the customer balance; the worker has left its loop
\* with four transactions finished.
C11_Witness ==
    /\ mpc = "L163"
    /\ wpc = "exited"
    /\ Len(doneLog) = 4

\* C12: no read of the ledger by main sees one balance of a commit updated and
\* the other not: the worker is never between the two updates (78/79, 86/87)
\* while main is at a read, the customer balance printed at 163 and the bank
\* balance read at 164 add up to the initial total, and so does the total
\* printed at 165.
C12_NoPartialCommitObserved ==
    /\ mpc \in LedgerReadLines
          => /\ wpc \notin {"L79", "L87"}
             /\ ledger.CustomerBalance + ledger.BankBalance = InitialCustomer + InitialBank
    /\ mpc = "L164" => printed[2] + ledger.BankBalance = InitialCustomer + InitialBank
    /\ printed[1] = "L165" => printed[2] = InitialCustomer + InitialBank

\* main has printed the customer balance left by four committed transactions
\* and is about to read the bank balance.
C12_Witness ==
    /\ mpc = "L164"
    /\ printed = <<"L163", 900>>
    /\ \A k \in 1..Len(doneLog) : doneLog[k].outcome = "committed"
    /\ Len(doneLog) = 4

\* C13: whenever main reads the balance after a scenario's requests, in the
\* Unsynchronized scenarios (53, 56, 253) and in the Lock-Guarded ones (224,
\* 235, 265), every withdrawRace, withdrawMutex and deposit goroutine started
\* so far has returned.
C13_ReadAfterCompletion ==
    mpc \in BalanceReadLines => LiveRace = {} /\ LiveLock = {}

\* main reads the balance of the last unsynchronized run, whose two requests
\* have both returned after subtracting from the same 1000.
C13_Witness ==
    /\ mpc = "L253" /\ i = Runs
    /\ rg[<<i, 1>>].res = "ok" /\ rg[<<i, 2>>].res = "ok"
    /\ balance \in {300, 500}

\* The WaitGroup main is working with: wg of testMutex (216) is instance 0,
\* wg of iteration i of testComparison (260) is instance i.
CurrentWg == IF mpc \in {"L261", "L262", "L263", "L264", "L265"} THEN i ELSE 0

\* The requests main has registered with wg.Add (219, 229, 261) and has not
\* started yet: the go statements between its position and the next wg.Wait.
ToStart ==
    CASE mpc \in {"L220", "L231", "L262"} -> 2
      [] mpc \in {"L221", "L232", "L263"} -> 1
      [] mpc = "L230" -> 3
      [] OTHER -> 0

\* The started requests of WaitGroup w whose deferred wg.Done() has not run.
Unsignalled(w) == {l \in LiveLock : lg[l].wg = w}

\* The lines that follow a wg.Wait() (222, 233, 264).
AfterWaitLines == {"L224", "L229", "L235", "L248", "L265"}

\* C14: every withdrawMutex and deposit call signals its WaitGroup exactly
\* once, committed or rejected: each counter is never negative and always
\* equals the number of registered requests that have not signalled yet, no
\* Done panics, and when main is past a wg.Wait every request of that
\* WaitGroup has returned and the lock is free.
C14_CompletionSignalling ==
    /\ \A w \in WgIds : wg[w] >= 0
    /\ \A w \in WgIds :
          wg[w] = Cardinality(Unsignalled(w)) + (IF w = CurrentWg THEN ToStart ELSE 0)
    /\ panic # "sync: negative WaitGroup counter"
    /\ mpc \in AfterWaitLines => Unsignalled(CurrentWg) = {} /\ ~muLocked
    /\ (mpc \in {"L222", "L233", "L264"} /\ wg[CurrentWg] = 0)
          => \A l \in Requests : lg[l].wg = CurrentWg => lg[l].pc = "done"

\* The rejected withdrawal of 700 has signalled and returned while the
\* committed withdrawal of 500 still has its Done to run.
C14_Witness ==
    /\ mpc = "L222"
    /\ lg[<<0, 1>>].res = "failed" /\ lg[<<0, 1>>].pc = "done"
    /\ lg[<<0, 2>>].res = "ok" /\ lg[<<0, 2>>].pc = "L173d"
    /\ wg[0] = 1

\* The two withdrawRace goroutines of a run: run 0 is testRaceCondition
\* (48-49), run k is iteration k of testComparison's first loop (250-251).
RacePair(run) == {<<run, 1>>, <<run, 2>>}

\* The request has evaluated balance >= amount (31).
Checked(r) == rg[r].pc \notin {"none", "L31"}

\* The request has stored its decrement (34).
Decremented(r) == rg[r].pc = "done" /\ rg[r].res = "ok"

\* C15: with balance 1000 and withdrawRace(700) and withdrawRace(500) running
\* together, both requests pass the check before either decrements and both
\* report success, so 1200 is debited from 1000; the balance main then reads
\* (53) is -200 when both decrements take effect, and 300 or 500 when one
\* overwrites the other. The run that leaves -200 is C15_Witness.
C15_RaceHazard ==
    /\ \A run \in 0..Runs : \A r \in RacePair(run) :
          Decremented(r) => \A q \in RacePair(run) : Checked(q) /\ rg[q].res # "failed"
    /\ \A r \in RaceIds : rg[r].res # "failed"
    /\ mpc = "L53"
          => /\ \A r \in RacePair(0) : Decremented(r)
             /\ rg[<<0, 1>>].amount + rg[<<0, 2>>].amount > InitialBalance
             /\ balance \in {InitialBalance - 1200, 300, 500}

\* Both requests of testRaceCondition have succeeded and main reads -200.
C15_Witness ==
    /\ mpc = "L53"
    /\ \A r \in RacePair(0) : Decremented(r)
    /\ balance = 0 - 200

\* C16: the Unsynchronized Executor has a ledger of its own: no step of a
\* withdrawRace request writes the balance that withdrawMutex and deposit
\* operate on.
C16_RaceHasOwnLedger ==
    [][\A r \in RaceIds : rg'[r] # rg[r] => balance' = balance]_vars

\* A withdrawal that asks for more than the balance it is checked against.
Exceeds(amount, bal) == amount > bal

\* The ledger after one finished transaction, going by its recorded outcome:
\* a committed one moved its amount (78-79, 86-87), any other moved nothing.
Post(ld, e) ==
    IF e.outcome # "committed" THEN ld
    ELSE IF e.tx.Type = "withdrawal"
         THEN CreditBank(DebitCustomer(ld, e.tx.Amount), e.tx.Amount)
         ELSE DebitBank(CreditCustomer(ld, e.tx.Amount), e.tx.Amount)

RECURSIVE PostAll(_, _)
PostAll(ld, log) == IF log = <<>> THEN ld ELSE PostAll(Post(ld, Head(log)), Tail(log))

\* C17: a withdrawal whose amount exceeds the balance at the check (181, 77)
\* is rejected and changes no balance, in that step or in the deferred calls
\* of the rejected request; the rejected transactions have left no trace in the
\* ledger; nothing panics, and the worker goes back to the channel and has
\* finished all four transactions when it leaves its loop.
C17_RejectionChangesNothing ==
    /\ [](panic = "")
    /\ [][\A l \in LockIds :
            (lg[l].pc = "L181" /\ Exceeds(lg[l].amount, balance) /\ lg'[l] # lg[l])
                => /\ balance' = balance
                   /\ lg'[l].res = "failed"
                   /\ lg'[l].pc = "L179d"]_vars
    /\ [][\A l \in LockIds :
            (lg[l].res = "failed" /\ lg'[l] # lg[l]) => balance' = balance]_vars
    /\ [][(wpc = "L76" /\ tx.Type = "withdrawal"
              /\ Exceeds(tx.Amount, ledger.CustomerBalance) /\ wpc' # wpc)
            => /\ ledger' = ledger
               /\ wpc' = "L63"
               /\ doneLog' = Append(doneLog, [tx |-> tx, outcome |-> "rejected"])]_vars
    /\ [](wpc \in {"L63", "L73", "L76", "exited"}
            => ledger = PostAll([CustomerBalance |-> InitialCustomer,
                                 BankBalance |-> InitialBank], doneLog))
    /\ [](wpc = "exited" => Len(doneLog) = Cardinality(ProdIds))

\* The worker rejected the second transaction and committed the third, and a
\* withdrawMutex call that was rejected has returned.
C17_Witness ==
    /\ Len(doneLog) = 4
    /\ doneLog[2].outcome = "rejected"
    /\ doneLog[3].outcome = "committed"
    /\ \E l \in LockIds : lg[l].res = "failed" /\ lg[l].pc = "done"
    /\ panic = ""

\* The withdrawMutex or deposit call has run its deferred mu.Unlock() (179,
\* 201): only wg.Done() is left, or it has returned.
Released(l) == lg[l].pc \in {"L173d", "L195d", "done"}

\* C18: a withdrawMutex or deposit call that has returned, committed or
\* rejected, does not hold mu: the mutex is held only while some request is
\* between its Lock and its deferred Unlock, so once every started request has
\* run its Unlock the mutex is free, as it is whenever main is past a wg.Wait;
\* no Unlock ever finds the mutex unlocked.
C18_LockReleased ==
    /\ (\A l \in Requests : Released(l)) => ~muLocked
    /\ muLocked => \E l \in Requests : ~Released(l) /\ InCritical(l)
    /\ mpc \in AfterWaitLines => ~muLocked
    /\ panic # "sync: unlock of unlocked mutex"

\* The rejected withdrawal of 700 and the committed withdrawal of 500 have
\* both returned and the mutex is free.
C18_Witness ==
    /\ lg[<<0, 1>>].pc = "done" /\ lg[<<0, 1>>].res = "failed"
    /\ lg[<<0, 2>>].pc = "done" /\ lg[<<0, 2>>].res = "ok"
    /\ mpc = "L222"
    /\ ~muLocked

\* C20, as stated: after both joins of testMutex the balance main reads (235)
\* is 1100, 1300 or 1500, and it is 1100 exactly when the withdrawal of 400 was
\* rejected.
C20_RejectedGives1100 ==
    mpc = "L235"
        => /\ balance \in {1100, 1300, 1500}
           /\ balance = 1100 <=> lg[<<0, 3>>].res = "failed"

\* C20, amended: after both joins of testMutex the balance main reads (235) is
\* 1100, 1300 or 1500; it is 1500 exactly when the withdrawal of 400 was
\* rejected, which takes a first round won by the withdrawal of 700; it is 1100
\* when the withdrawals of 700 and 400 both committed, and 1300 when the
\* withdrawal of 500 won the first round.
C20_RejectedGives1500 ==
    mpc = "L235"
        => /\ balance \in {1100, 1300, 1500}
           /\ balance = 1500 <=> lg[<<0, 3>>].res = "failed"
           /\ balance = 1500 => lg[<<0, 1>>].res = "ok"
           /\ balance = 1100 <=> (lg[<<0, 1>>].res = "ok" /\ lg[<<0, 3>>].res = "ok")
           /\ balance = 1300 <=> lg[<<0, 2>>].res = "ok"
           /\ lg[<<0, 4>>].res = "ok" /\ lg[<<0, 5>>].res = "ok"
           /\ printed = <<"L224", 1000 + Net(Pair(0))>>

\* main reads 1500 after the second join: the withdrawal of 400 was rejected.
C20_Witness ==
    /\ mpc = "L235"
    /\ balance = 1500
    /\ lg[<<0, 3>>].res = "failed"

\* The five requests of testMutex: two before the first wg.Wait (220-221),
\* three before the second (230-232).
MutexRequests == {0} \X (1..5)

\* C19: under fair scheduling testMutex, once entered (213), ends (main
\* reaches 248) with every withdrawMutex and deposit request it started having
\* taken the lock, run its body, released the lock and signalled its WaitGroup,
\* so both wg.Wait calls (222, 233) have returned, the first (224) with its two
\* requests finished; nothing panics on the way.
C19_MutexProgress ==
    /\ (mpc = "L213")
          ~> (/\ mpc = "L248"
              /\ \A l \in MutexRequests : Settled(l) /\ lg[l].pc = "done"
              /\ printed[1] = "L235")
    /\ [](mpc = "L224" => \A l \in Pair(0) : Settled(l) /\ lg[l].pc = "done")
    /\ [](panic = "")

\* testMutex has returned: all five requests have run and signalled, the
\* counter is zero and the mutex is free.
C19_Witness ==
    /\ mpc = "L248"
    /\ \A l \in MutexRequests : Settled(l) /\ lg[l].pc = "done"
    /\ wg[0] = 0
    /\ ~muLocked

====
